---- MODULE Spec2Model ----
(***************************************************************************)
(* Model of the chamber-finder scraper (scraping.py; scrapping.py is the   *)
(* same program without comments).                                         *)
(*                                                                         *)
(* Python strings are sequences of one-character strings, so that strip,   *)
(* split, startswith, `in` and re.sub are computed character by character. *)
(* Python's None and a raised exception are one-element sequences holding  *)
(* a multi-character marker, which no string of characters can equal.      *)
(***************************************************************************)
EXTENDS Integers, Sequences, FiniteSets, TLC

VARIABLES
    \* harness of the function-level specifications
    input,        \* the argument(s) handed to the function under check
    output,       \* the values returned so far, in call order
    step,         \* which call has been made
    \* state of one run of main()
    pc,           \* position in main()
    driver,       \* "none" | "open" | "quit"
    index_page,   \* what the index page shows: [wait, find, links]
    state_links,  \* dict of main(): sequence of <<state_name, href>>, insertion order
    i,            \* number of regions whose loop iteration has begun
    chambers,     \* value returned by the current scrape_state call
    returned,     \* every value scrape_state returned, in call order
    files,        \* files written below the working directory: filename -> content
    cwd,          \* the process working directory
    dir_exists,   \* whether chambers_by_state exists
    dir_created,  \* whether this run called os.makedirs
    navigations,  \* every driver.get made: <<loop position, url>>
    log,          \* messages printed by the except branches
    save_failed   \* whether open()/json.dump raised in save_state_data

fnvars == <<input, output, step>>
mainvars == <<pc, driver, index_page, state_links, i, chambers, returned, files,
              cwd, dir_exists, dir_created, navigations, log, save_failed>>
vars == <<input, output, step, pc, driver, index_page, state_links, i, chambers,
          returned, files, cwd, dir_exists, dir_created, navigations, log, save_failed>>

(***************************************************************************)
(* Strings                                                                 *)
(***************************************************************************)
None == <<"<None>">>
Raises == <<"<raises>">>

\* the characters str.strip() removes (ASCII part)
Whitespace == {" ", "\t", "\n", "\r", "\f"}

\* the character class of the re.sub in sanitize_filename
Forbidden == {"\\", "/", "*", "?", ":", "\"", "<", ">", "|"}

SetMin(S) == CHOOSE x \in S : \A y \in S : x <= y
SetMax(S) == CHOOSE x \in S : \A y \in S : x >= y

\* str.strip()
Strip(s) ==
    LET keep == {k \in 1..Len(s) : s[k] \notin Whitespace}
    IN  IF keep = {} THEN <<>> ELSE SubSeq(s, SetMin(keep), SetMax(keep))

\* sub in s
Contains(sub, s) ==
    \E k \in 0..(Len(s) - Len(sub)) : SubSeq(s, k + 1, k + Len(sub)) = sub

\* s.startswith(prefix)
StartsWith(s, prefix) ==
    Len(s) >= Len(prefix) /\ SubSeq(s, 1, Len(prefix)) = prefix

\* s.split("\n")[0]
FirstLine(s) ==
    LET nl == {k \in 1..Len(s) : s[k] = "\n"}
    IN  IF nl = {} THEN s ELSE SubSeq(s, 1, SetMin(nl) - 1)

\* re.sub(r'[\\/*?:"<>|]', "_", s)
ReplaceForbidden(s) == [k \in 1..Len(s) |-> IF s[k] \in Forbidden THEN "_" ELSE s[k]]

\* a plausible slip: the first line is taken before the whitespace is stripped
sanitize_split_first(name) == ReplaceForbidden(Strip(FirstLine(name)))

sanitize_filename(name) ==
    LET stripped == Strip(name)
        line == IF Contains(<<"\n">>, stripped) THEN FirstLine(stripped) ELSE stripped
    IN  ReplaceForbidden(line)

(***************************************************************************)
(* Module constants                                                        *)
(***************************************************************************)
\* "https://www.uschamber.com"
BASE_URL ==
    <<"h","t","t","p","s",":","/","/","w","w","w",".","u","s","c","h","a","m","b","e","r",".","c","o","m">>

\* f"{BASE_URL}/co/chambers"
MAIN_PAGE == BASE_URL \o <<"/","c","o","/","c","h","a","m","b","e","r","s">>

\* "/co/chambers/", the path a state link must hold
StatePath == <<"/","c","o","/","c","h","a","m","b","e","r","s","/">>

\* "http", the prefix a website link must have
HttpPrefix == <<"h","t","t","p">>

\* "N/A", the value of a name or an address that could not be read
NotAvailable == <<"N","/","A">>

\* "chambers_by_state"
output_dir == <<"c","h","a","m","b","e","r","s","_","b","y","_","s","t","a","t","e">>

\* ".json"
JsonSuffix == <<".","j","s","o","n">>

\* Python truthiness of a string-or-None
Truthy(s) == s # None /\ s # <<>>

(***************************************************************************)
(* dict, as the sequence of its <<key, value>> items in insertion order    *)
(***************************************************************************)
DictKeys(d) == {d[k][1] : k \in DOMAIN d}

DictGet(d, key) == d[CHOOSE k \in DOMAIN d : d[k][1] = key][2]

\* a plausible slip: the first value of a key is kept (dict.setdefault)
DictSetDefault(d, key, value) ==
    IF key \in DictKeys(d) THEN d ELSE Append(d, <<key, value>>)

\* d[key] = value
DictSet(d, key, value) ==
    IF key \in DictKeys(d)
    THEN [k \in DOMAIN d |-> IF d[k][1] = key THEN <<key, value>> ELSE d[k]]
    ELSE Append(d, <<key, value>>)

(***************************************************************************)
(* get_state_links                                                         *)
(*                                                                         *)
(* The index page is [wait, find, links]: wait is "present" or "timeout"   *)
(* (the outcome of the WebDriverWait on the container); find is "ok" or    *)
(* "raises" (find_elements); links are the container's anchors in document *)
(* order, each [href, text] with href a string, None, or Raises when       *)
(* reading the anchor raises.                                              *)
(***************************************************************************)
\* the filter of the loop, with state_name already stripped
IsStateLink(href, state_name) ==
    /\ Truthy(href)
    /\ Truthy(state_name)
    /\ Contains(StatePath, href)
    /\ href # MAIN_PAGE

RECURSIVE StateLinkLoop(_, _, _)
\* the for loop over links, from anchor k on; an exception ends it with what was found
StateLinkLoop(links, k, found) ==
    IF k > Len(links) THEN found
    ELSE IF links[k].href = Raises THEN found
    ELSE LET href == links[k].href
             state_name == Strip(links[k].text)
         IN  IF IsStateLink(href, state_name)
             THEN StateLinkLoop(links, k + 1, DictSet(found, state_name, href))
             ELSE StateLinkLoop(links, k + 1, found)

\* whether the try block of get_state_links raised (and the except branch printed)
StateLinksError(page) ==
    \/ page.wait = "timeout"
    \/ page.find = "raises"
    \/ \E k \in DOMAIN page.links : page.links[k].href = Raises

get_state_links(page) ==
    IF page.wait = "timeout" \/ page.find = "raises" THEN <<>>
    ELSE StateLinkLoop(page.links, 1, <<>>)

(***************************************************************************)
(* scrape_state                                                            *)
(*                                                                         *)
(* A state page is [nav, wait, find, items]: nav is "ok" or "raises"       *)
(* (driver.get), wait is "present" or "timeout" (the WebDriverWait), find  *)
(* is "ok" or "raises" (find_elements on the page), items are the          *)
(* .chamber-finder__content elements in document order.  An item is        *)
(* [h3, address, find, links]: h3 and address are the element's text, or   *)
(* Raises when find_element raises (no such element); find is "ok" or      *)
(* "raises" (find_elements for the anchors); links are the hrefs of the    *)
(* item's anchors in document order, each a string, None, or Raises when   *)
(* get_attribute raises.                                                   *)
(***************************************************************************)
\* the test of one href in the website loop
IsWebsite(href) ==
    /\ Truthy(href)
    /\ StartsWith(href, HttpPrefix)
    /\ ~Contains(BASE_URL, href)

RECURSIVE WebsiteLoopNoBreak(_, _, _)
\* a plausible slip: no break, so the last external link wins
WebsiteLoopNoBreak(links, k, website) ==
    IF k > Len(links) THEN website
    ELSE IF links[k] = Raises THEN None
    ELSE IF IsWebsite(links[k]) THEN WebsiteLoopNoBreak(links, k + 1, links[k])
    ELSE WebsiteLoopNoBreak(links, k + 1, website)

RECURSIVE WebsiteLoop(_, _, _)
\* the for loop over the anchors of one item, from anchor k on; the first
\* external href ends it, an exception sets website to None
WebsiteLoop(links, k, website) ==
    IF k > Len(links) THEN website
    ELSE IF links[k] = Raises THEN None
    ELSE IF IsWebsite(links[k]) THEN links[k]
    ELSE WebsiteLoop(links, k + 1, website)

\* a plausible slip: one try block around the three lookups, so that a failure
\* of one of them leaves nothing of the item
ExtractChamberOneTry(item) ==
    IF item.h3 = Raises \/ item.address = Raises \/ item.find = "raises"
    THEN [name |-> NotAvailable, address |-> NotAvailable, website |-> None]
    ELSE [name |-> Strip(item.h3), address |-> Strip(item.address),
          website |-> WebsiteLoop(item.links, 1, None)]

\* a plausible slip: a field that could not be read is left as None
ExtractChamberNone(item) ==
    [name    |-> IF item.h3 = Raises THEN None ELSE Strip(item.h3),
     address |-> IF item.address = Raises THEN None ELSE Strip(item.address),
     website |-> IF item.find = "raises" THEN None ELSE WebsiteLoop(item.links, 1, None)]

\* the body of the loop over chamber_items: the dict appended for one item
ExtractChamber(item) ==
    [name    |-> IF item.h3 = Raises THEN NotAvailable ELSE Strip(item.h3),
     address |-> IF item.address = Raises THEN NotAvailable ELSE Strip(item.address),
     website |-> IF item.find = "raises" THEN None ELSE WebsiteLoop(item.links, 1, None)]

\* whether scrape_state raises to its caller: driver.get is outside every try
ScrapeStateRaises(page) == page.nav = "raises"

\* the message scrape_state prints from an except branch, if any
ScrapeStateLog(page) ==
    IF page.wait = "timeout" THEN <<"Timed out waiting for chamber items">>
    ELSE IF page.find = "raises" THEN <<"Error scraping chambers">>
    ELSE <<>>

\* the list scrape_state returns when driver.get did not raise
scrape_state(page) ==
    IF page.wait = "timeout" THEN <<>>
    ELSE IF page.find = "raises" THEN <<>>
    ELSE [k \in 1..Len(page.items) |-> ExtractChamber(page.items[k])]

(***************************************************************************)
(* save_state_data                                                         *)
(***************************************************************************)
\* filename = f"{safe_state_name}.json"
FileName(state_name) == sanitize_filename(state_name) \o JsonSuffix

\* output_data = {state_name: chambers}, as json.dump writes it and json.load reads it
OutputData(state_name, listing) == [key |-> state_name, value |-> listing]

\* a plausible slip: a file that exists is left as it is (open(filename, "x"))
WriteFileOnce(fs, filename, data) ==
    IF \E k \in DOMAIN fs : fs[k][1] = filename THEN fs ELSE Append(fs, <<filename, data>>)

\* open(filename, "w") and json.dump: the file is created or replaced
WriteFile(fs, filename, data) == DictSet(fs, filename, data)

(***************************************************************************)
(* Bounds                                                                  *)
(***************************************************************************)
MaxNameLen == 4
MaxAnchors == 3
MaxItems == 2
MaxRegions == 2
MaxLinks == 3

\* all sequences over S of length at most n
SeqUpTo(S, n) == UNION {[1..k -> S] : k \in 0..n}

IdleMain ==
    /\ pc = "idle" /\ driver = "none" /\ index_page = <<>> /\ state_links = <<>>
    /\ i = 0 /\ chambers = <<>> /\ returned = <<>> /\ files = <<>>
    /\ cwd = <<>> /\ dir_exists = FALSE /\ dir_created = FALSE
    /\ navigations = <<>> /\ log = <<>> /\ save_failed = FALSE

IdleFn == input = <<>> /\ output = <<>> /\ step = "idle"

(***************************************************************************)
(* main()                                                                  *)
(***************************************************************************)
TX == <<"T","X">>
OH == <<"O","H">>
TexasUrl == MAIN_PAGE \o <<"/","t","e","x","a","s">>
OhioUrl == MAIN_PAGE \o <<"/","o","h","i","o">>
AboutUrl == BASE_URL \o <<"/","a","b","o","u","t">>
\* "Austin Chamber"
AustinChamber == <<"A","u","s","t","i","n"," ","C","h","a","m","b","e","r">>
\* "123 Main St"
MainSt == <<"1","2","3"," ","M","a","i","n"," ","S","t">>
\* "https://austinchamber.org"
AustinUrl ==
    <<"h","t","t","p","s",":","/","/","a","u","s","t","i","n","c","h","a","m","b","e","r",".","o","r","g">>

Anchor(text, href) == [href |-> href, text |-> text]

Item(h3, address, find, links) ==
    [h3 |-> h3, address |-> address, find |-> find, links |-> links]

StatePage(nav, wait, find, items) ==
    [nav |-> nav, wait |-> wait, find |-> find, items |-> items]

\* the anchors an index page of a run is made of
RunAnchorPool ==
    { Anchor(TX, TexasUrl),
      Anchor(OH, OhioUrl),
      Anchor(<<"T","/","X">>, TexasUrl),
      Anchor(<<"T",":","X">>, OhioUrl),
      Anchor(OH, AboutUrl),
      Anchor(TX, Raises) }

\* the index pages of a run: the container never shows, or find_elements raises,
\* or the container holds up to MaxRegions anchors
IndexPages ==
    { [wait |-> "timeout", find |-> "ok", links |-> <<Anchor(TX, TexasUrl)>>],
      [wait |-> "present", find |-> "raises", links |-> <<Anchor(TX, TexasUrl)>>] }
    \cup [wait : {"present"}, find : {"ok"}, links : SeqUpTo(RunAnchorPool, MaxRegions)]

\* what a state page can show once driver.get returned
StatePages ==
    { StatePage("ok", "timeout", "ok", <<>>),
      StatePage("ok", "present", "raises", <<>>),
      StatePage("ok", "present", "ok",
                <<Item(AustinChamber, MainSt, "ok", <<AustinUrl>>)>>),
      StatePage("ok", "present", "ok",
                <<Item(AustinChamber, Raises, "ok", <<AboutUrl>>),
                  Item(Raises, MainSt, "raises", <<>>)>>) }

Init ==
    /\ IdleFn
    /\ pc = "start"
    /\ driver = "none"
    /\ index_page \in IndexPages
    /\ state_links = <<>>
    /\ i = 0
    /\ chambers = <<>>
    /\ returned = <<>>
    /\ files = <<>>
    /\ cwd = <<".">>
    /\ dir_exists \in BOOLEAN
    /\ dir_created = FALSE
    /\ navigations = <<>>
    /\ log = <<>>
    /\ save_failed = FALSE

\* driver = webdriver.Chrome(options=chrome_options)
StartDriver ==
    /\ pc = "start"
    /\ driver' = "open"
    /\ pc' = "get_main"
    /\ UNCHANGED <<fnvars, index_page, state_links, i, chambers, returned, files, cwd,
                   dir_exists, dir_created, navigations, log, save_failed>>

\* driver.get(MAIN_PAGE); time.sleep(3)
GetMainPage ==
    /\ pc = "get_main"
    /\ navigations' = Append(navigations, <<0, MAIN_PAGE>>)
    /\ pc' = "discover"
    /\ UNCHANGED <<fnvars, driver, index_page, state_links, i, chambers, returned, files,
                   cwd, dir_exists, dir_created, log, save_failed>>

\* driver.get(MAIN_PAGE) raises: nothing in main() catches it
GetMainPageRaises ==
    /\ pc = "get_main"
    /\ navigations' = Append(navigations, <<0, MAIN_PAGE>>)
    /\ pc' = "aborted"
    /\ UNCHANGED <<fnvars, driver, index_page, state_links, i, chambers, returned, files,
                   cwd, dir_exists, dir_created, log, save_failed>>

\* state_links = get_state_links(driver)
Discover ==
    /\ pc = "discover"
    /\ state_links' = get_state_links(index_page)
    /\ log' = IF StateLinksError(index_page)
              THEN Append(log, "Error while trying to get state links")
              ELSE log
    /\ pc' = "check"
    /\ UNCHANGED <<fnvars, driver, index_page, i, chambers, returned, files, cwd,
                   dir_exists, dir_created, navigations, save_failed>>

\* a plausible slip: the output directory is set up before the mapping is tested
EarlyExitAfterMakedirs ==
    /\ pc = "check"
    /\ state_links = <<>>
    /\ dir_exists' = TRUE
    /\ dir_created' = ~dir_exists
    /\ cwd' = output_dir
    /\ log' = Append(log, "No state links found")
    /\ driver' = "quit"
    /\ pc' = "done"
    /\ UNCHANGED <<fnvars, index_page, state_links, i, chambers, returned, files,
                   navigations, save_failed>>

\* if not state_links: print; driver.quit(); return
EarlyExit ==
    /\ pc = "check"
    /\ state_links = <<>>
    /\ log' = Append(log, "No state links found")
    /\ driver' = "quit"
    /\ pc' = "done"
    /\ UNCHANGED <<fnvars, index_page, state_links, i, chambers, returned, files, cwd,
                   dir_exists, dir_created, navigations, save_failed>>

\* if not os.path.exists(output_dir): os.makedirs(output_dir); os.chdir(output_dir)
MakeOutputDir ==
    /\ pc = "check"
    /\ state_links # <<>>
    /\ dir_exists' = TRUE
    /\ dir_created' = ~dir_exists
    /\ cwd' = output_dir
    /\ pc' = "loop"
    /\ UNCHANGED <<fnvars, driver, index_page, state_links, i, chambers, returned, files,
                   navigations, log, save_failed>>

\* the next item of state_links.items(): chambers = scrape_state(...), driver.get
\* having returned
ScrapeState ==
    /\ pc = "loop"
    /\ i < Len(state_links)
    /\ \E page \in StatePages :
          /\ chambers' = scrape_state(page)
          /\ returned' = Append(returned, scrape_state(page))
          /\ log' = log \o ScrapeStateLog(page)
    /\ navigations' = Append(navigations, <<i + 1, state_links[i + 1][2]>>)
    /\ i' = i + 1
    /\ pc' = "save"
    /\ UNCHANGED <<fnvars, driver, index_page, state_links, files, cwd, dir_exists,
                   dir_created, save_failed>>

\* the next item of state_links.items(): driver.get(state_url) raises in
\* scrape_state, outside its try blocks, and nothing in main() catches it
ScrapeStateNavigationRaises ==
    /\ pc = "loop"
    /\ i < Len(state_links)
    /\ ScrapeStateRaises(StatePage("raises", "timeout", "ok", <<>>))
    /\ navigations' = Append(navigations, <<i + 1, state_links[i + 1][2]>>)
    /\ i' = i + 1
    /\ pc' = "aborted"
    /\ UNCHANGED <<fnvars, driver, index_page, state_links, chambers, returned, files,
                   cwd, dir_exists, dir_created, log, save_failed>>

\* save_state_data(state_name, chambers)
SaveStateData ==
    /\ pc = "save"
    /\ LET state_name == state_links[i][1]
       IN  files' = WriteFile(files, FileName(state_name), OutputData(state_name, chambers))
    /\ log' = Append(log, "Saved data")
    /\ pc' = "loop"
    /\ UNCHANGED <<fnvars, driver, index_page, state_links, i, chambers, returned, cwd,
                   dir_exists, dir_created, navigations, save_failed>>

\* save_state_data raises (open or json.dump): nothing in main() catches it
SaveStateDataRaises ==
    /\ pc = "save"
    /\ save_failed' = TRUE
    /\ pc' = "aborted"
    /\ UNCHANGED <<fnvars, driver, index_page, state_links, i, chambers, returned, files,
                   cwd, dir_exists, dir_created, navigations, log>>

\* driver.quit() after the loop
Quit ==
    /\ pc = "loop"
    /\ i = Len(state_links)
    /\ driver' = "quit"
    /\ pc' = "done"
    /\ UNCHANGED <<fnvars, index_page, state_links, i, chambers, returned, files, cwd,
                   dir_exists, dir_created, navigations, log, save_failed>>

Next ==
    \/ StartDriver
    \/ GetMainPage
    \/ GetMainPageRaises
    \/ Discover
    \/ EarlyExit
    \/ MakeOutputDir
    \/ ScrapeState
    \/ ScrapeStateNavigationRaises
    \/ SaveStateData
    \/ SaveStateDataRaises
    \/ Quit

Spec == Init /\ [][Next]_vars

\* the run of main() is over: it returned, or an exception left it
Ended == pc \in {"done", "aborted"}

\* C1: on every path out of main() taken with the browser session open (the loop
\* finished, no state link found, an exception out of a navigation or out of
\* save_state_data), driver.quit() has been called when the run ends.
C1_SessionReleased == Ended => driver = "quit"

\* C2: after a run, every discovered state has its own output file, holding the state's
\* display name and exactly the listings its scrape_state call returned, and there is
\* no other file: no two states of a run share or overwrite a file.
C2_OneFilePerState ==
    pc = "done" =>
        /\ Len(files) = Len(state_links)
        /\ \A k \in DOMAIN state_links :
              LET state_name == state_links[k][1]
              IN  /\ FileName(state_name) \in DictKeys(files)
                  /\ DictGet(files, FileName(state_name)) = [key |-> state_name, value |-> returned[k]]

\* C3: whatever fails while a state is extracted (the navigation, the wait, the
\* enumeration), the failure stays inside scrape_state: the state yields a listing
\* sequence that is saved, every later state is extracted and saved too, and each
\* state is navigated to exactly once.
C3_ExtractionFailureContained ==
    (Ended /\ ~save_failed /\ state_links # <<>>) =>
        /\ pc = "done"
        /\ Len(returned) = Len(state_links)
        /\ \A k \in DOMAIN state_links :
              /\ FileName(state_links[k][1]) \in DictKeys(files)
              /\ Cardinality({n \in DOMAIN navigations : navigations[n][1] = k}) = 1

\* C10: when get_state_links returns an empty mapping, main() goes straight to its
\* return: no state page is navigated to, chambers_by_state is not created, the
\* working directory is not changed and no file is written.
C10_EmptyDiscoveryLeavesNoTrace ==
    (state_links = <<>> /\ pc \notin {"start", "get_main", "discover"}) =>
        /\ \/ pc \in {"check", "done"}
           \/ pc = "aborted" /\ log = <<>> /\ driver = "open"   \* the index page never loaded
        /\ navigations = <<<<0, MAIN_PAGE>>>>
        /\ ~dir_created
        /\ cwd = <<".">>
        /\ files = <<>>
        /\ pc = "done" => driver = "quit"

\* the container of the index page never showed; the run has returned
C10_Witness ==
    /\ pc = "done"
    /\ state_links = <<>>
    /\ index_page.wait = "timeout"
    /\ Len(log) = 2
    /\ ~dir_exists

(***************************************************************************)
(* sanitize_filename on every short name                                   *)
(***************************************************************************)
NameChars == {"a", " ", "\t", "\n", "/", "_"}

InitSanitize ==
    /\ input \in SeqUpTo(NameChars, MaxNameLen)
    /\ output = <<>>
    /\ step = "start"
    /\ IdleMain

\* safe = sanitize_filename(name)
CallSanitize ==
    /\ step = "start"
    /\ output' = <<sanitize_filename(input)>>
    /\ step' = "once"
    /\ UNCHANGED <<input, mainvars>>

\* sanitize_filename(safe)
CallSanitizeAgain ==
    /\ step = "once"
    /\ output' = Append(output, sanitize_filename(output[1]))
    /\ step' = "again"
    /\ UNCHANGED <<input, mainvars>>

\* sanitize_filename(first line of name)
CallSanitizeFirstLine ==
    /\ step = "once"
    /\ Contains(<<"\n">>, input)
    /\ output' = Append(output, sanitize_filename(FirstLine(input)))
    /\ step' = "firstline"
    /\ UNCHANGED <<input, mainvars>>

\* sanitize_filename(first line of name.strip())
CallSanitizeTrimmedFirstLine ==
    /\ step = "once"
    /\ Contains(<<"\n">>, input)
    /\ output' = Append(output, sanitize_filename(FirstLine(Strip(input))))
    /\ step' = "trimmedfirstline"
    /\ UNCHANGED <<input, mainvars>>

NextSanitize ==
    \/ CallSanitize
    \/ CallSanitizeAgain
    \/ CallSanitizeFirstLine
    \/ CallSanitizeTrimmedFirstLine

SpecSanitize == InitSanitize /\ [][NextSanitize]_vars

\* C6: sanitize_filename is idempotent: sanitizing a sanitized name returns it unchanged.
C6_Idempotent == step = "again" => output[2] = output[1]

\* C7: for a name holding a line break, sanitize_filename(name) equals
\* sanitize_filename of the text before the name's first line break.
C7_FirstLineOfName == step = "firstline" => output[2] = output[1]

\* C7 (amended): for a name holding a line break, sanitize_filename(name) with its
\* surrounding whitespace trimmed equals sanitize_filename of the first line of the
\* trimmed name.
C7_FirstLineOfTrimmedName == step = "trimmedfirstline" => Strip(output[1]) = output[2]

\* a name that starts with a line break: the text after it is what is kept
C7_Witness ==
    /\ step = "trimmedfirstline"
    /\ Len(input) >= 3
    /\ input[1] = "\n"
    /\ input[2] = "a"
    /\ output[1] = <<"a">>

(***************************************************************************)
(* get_state_links on every short index page                               *)
(***************************************************************************)
AnchorPool ==
    { Anchor(TX, TexasUrl),
      Anchor(<<" ">> \o TX \o <<"\n">>, OhioUrl),   \* the same name once stripped
      Anchor(OH, OhioUrl),
      Anchor(<<>>, TexasUrl),                       \* no text
      Anchor(<<" ">>, TexasUrl),                    \* blank text
      Anchor(TX, None),                             \* no href attribute
      Anchor(OH, <<>>),                             \* empty href
      Anchor(OH, AboutUrl),                         \* not a state path
      Anchor(OH, MAIN_PAGE),                        \* the index page itself
      Anchor(OH, MAIN_PAGE \o <<"/">>),              \* the state path with nothing after it
      Anchor(OH, Raises) }                          \* reading the anchor raises

InitLinks ==
    /\ input \in [wait : {"present"}, find : {"ok"}, links : SeqUpTo(AnchorPool, MaxAnchors)]
    /\ output = <<>>
    /\ step = "start"
    /\ IdleMain

\* state_links = get_state_links(driver)
CallGetStateLinks ==
    /\ step = "start"
    /\ output' = <<get_state_links(input)>>
    /\ step' = "links"
    /\ UNCHANGED <<input, mainvars>>

NextLinks == CallGetStateLinks

SpecLinks == InitLinks /\ [][NextLinks]_vars

\* the anchors the filter is documented to keep
C8_Qualifying(links) ==
    {k \in DOMAIN links :
        /\ links[k].href \notin {None, <<>>}
        /\ Strip(links[k].text) # <<>>
        /\ Contains(StatePath, links[k].href)
        /\ links[k].href # MAIN_PAGE}

\* C8: without an inspection error, the mapping get_state_links returns has one entry
\* per display name of a qualifying anchor and no other entry, and each display name
\* maps to the href of the last qualifying anchor that carries it.
C8_ExactlyQualifying ==
    (step = "links" /\ ~StateLinksError(input)) =>
        LET links == input.links
            q == C8_Qualifying(links)
            d == output[1]
        IN  /\ DictKeys(d) = {Strip(links[k].text) : k \in q}
            /\ Len(d) = Cardinality(DictKeys(d))
            /\ \A k \in q :
                  DictGet(d, Strip(links[k].text)) =
                      links[SetMax({m \in q : Strip(links[m].text) = Strip(links[k].text)})].href

\* two qualifying anchors share a display name, with different hrefs, among anchors
\* that do not qualify
C8_Witness ==
    /\ step = "links"
    /\ ~StateLinksError(input)
    /\ Len(input.links) = 3
    /\ Cardinality(C8_Qualifying(input.links)) = 2
    /\ Len(output[1]) = 1
    /\ output[1][1] = <<TX, OhioUrl>>

(***************************************************************************)
(* scrape_state on every short state page                                  *)
(***************************************************************************)
\* "http://www.uschamber.com/x": the site itself, not over https
PlainHttpUrl ==
    <<"h","t","t","p",":","/","/","w","w","w",".","u","s","c","h","a","m","b","e","r",".","c","o","m","/","x">>
\* "https://x.org/?u=https://www.uschamber.com": another site, naming this one
ShareUrl == <<"h","t","t","p","s",":","/","/","x",".","o","r","g","/","?","u","=">> \o BASE_URL
\* "mailto:a@b.org"
MailUrl == <<"m","a","i","l","t","o",":","a","@","b",".","o","r","g">>
\* "httpx://y.org"
HttpxUrl == <<"h","t","t","p","x",":","/","/","y",".","o","r","g">>

\* items whose three lookups succeed or fail in every combination
ItemPool ==
    { Item(h3, address, scan[1], scan[2]) :
        h3 \in {Raises, <<" ">> \o AustinChamber},
        address \in {Raises, MainSt \o <<"\n">>},
        scan \in { <<"raises", <<>>>>,
                   <<"ok", <<>>>>,
                   <<"ok", <<AboutUrl, AustinUrl>>>>,
                   <<"ok", <<AboutUrl>>>>,
                   <<"ok", <<Raises, AustinUrl>>>> } }

InitScrape ==
    /\ input \in { StatePage("ok", "present", "ok", items) :
                     items \in SeqUpTo(ItemPool, MaxItems) }
    /\ output = <<>>
    /\ step = "start"
    /\ IdleMain

\* chambers = scrape_state(driver, state_name, state_url)
CallScrapeState ==
    /\ step = "start"
    /\ ~ScrapeStateRaises(input)
    /\ output' = <<scrape_state(input)>>
    /\ step' = "scraped"
    /\ UNCHANGED <<input, mainvars>>

NextScrape == CallScrapeState

SpecScrape == InitScrape /\ [][NextScrape]_vars

\* one item, its anchors drawn from every kind of href
HrefPool ==
    {None, <<>>, Raises, AustinUrl, AboutUrl, PlainHttpUrl, ShareUrl, MailUrl, HttpxUrl}

InitWebsite ==
    /\ input \in { StatePage("ok", "present", "ok", <<Item(AustinChamber, MainSt, "ok", links)>>) :
                     links \in SeqUpTo(HrefPool, MaxLinks) }
    /\ output = <<>>
    /\ step = "start"
    /\ IdleMain

SpecWebsite == InitWebsite /\ [][NextScrape]_vars

\* whether the anchors of an item were read without an exception
ScanOk(item) == item.find = "ok" /\ \A m \in DOMAIN item.links : item.links[m] # Raises

\* the first href of links that is a website by test(_), None when there is none
FirstHref(links, test(_)) ==
    LET q == {m \in DOMAIN links : test(links[m])}
    IN  IF q = {} THEN None ELSE links[SetMin(q)]

\* starts with "http" and does not hold "https://www.uschamber.com"
C9_HttpAndNotBaseUrl(href) ==
    /\ href \notin {None, <<>>, Raises}
    /\ StartsWith(href, <<"h","t","t","p">>)
    /\ ~Contains(<<"h","t","t","p","s",":","/","/","w","w","w",".","u","s","c","h","a","m","b","e","r",".","c","o","m">>, href)

\* C4: with the wait passed and K items found, scrape_state returns K listings in the
\* order of the items, and a lookup that fails in an item leaves the item's other
\* fields with the values read from that item, in that item and in every later one.
C4_FieldsIsolated ==
    step = "scraped" =>
        LET items == input.items
            out == output[1]
        IN  /\ Len(out) = Len(items)
            /\ \A k \in DOMAIN items :
                  /\ items[k].h3 # Raises => out[k].name = Strip(items[k].h3)
                  /\ items[k].address # Raises => out[k].address = Strip(items[k].address)
                  /\ ScanOk(items[k]) =>
                        out[k].website = FirstHref(items[k].links, C9_HttpAndNotBaseUrl)

\* an item whose address lookup fails, then an item whose heading and anchors fail:
\* both are listed, with what could be read
C4_Witness ==
    /\ step = "scraped"
    /\ Len(input.items) = 2
    /\ input.items[1].address = Raises
    /\ input.items[2].h3 = Raises
    /\ input.items[2].find = "raises"
    /\ output[1][1].name = AustinChamber
    /\ output[1][1].website = AustinUrl
    /\ output[1][2].address = MainSt

Host(href) ==
    LET at == {k \in 1..(Len(href) - 2) : SubSeq(href, k, k + 2) = <<":","/","/">>}
    IN  IF at = {} THEN <<>>
        ELSE LET rest == SubSeq(href, SetMin(at) + 3, Len(href))
                 slash == {k \in DOMAIN rest : rest[k] = "/"}
             IN  IF slash = {} THEN rest ELSE SubSeq(rest, 1, SetMin(slash) - 1)

\* an http:// or https:// URL whose host is not www.uschamber.com
C9_HttpSchemeAndForeignHost(href) ==
    /\ href \notin {None, <<>>, Raises}
    /\ \/ StartsWith(href, <<"h","t","t","p",":","/","/">>)
       \/ StartsWith(href, <<"h","t","t","p","s",":","/","/">>)
    /\ Host(href) # <<"w","w","w",".","u","s","c","h","a","m","b","e","r",".","c","o","m">>

\* C9: the website of a listing is the href of the item's first anchor whose href has
\* an HTTP scheme and is not on the site's own domain, and null exactly when the item
\* has no such anchor.
C9_FirstForeignHttp ==
    (step = "scraped" /\ ScanOk(input.items[1])) =>
        output[1][1].website = FirstHref(input.items[1].links, C9_HttpSchemeAndForeignHost)

\* C9 (amended): the website of a listing is the href of the item's first anchor whose
\* href starts with "http" and does not hold the text "https://www.uschamber.com",
\* when no anchor before it failed to be read; it is null when the item has no such
\* anchor, or when reading an anchor failed before one was found.
C9_FirstHttpWithoutBaseUrl ==
    step = "scraped" =>
        LET links == input.items[1].links
            bad == {m \in DOMAIN links : links[m] = Raises}
            upto == IF bad = {} THEN links ELSE SubSeq(links, 1, SetMin(bad) - 1)
            first == FirstHref(upto, C9_HttpAndNotBaseUrl)
        IN  output[1][1].website = first

\* the site's own page, then a page of another site that names this one, then the
\* chamber's website: the third is taken
C9_Witness ==
    /\ step = "scraped"
    /\ input.items[1].links = <<AboutUrl, ShareUrl, AustinUrl>>
    /\ output[1][1].website = AustinUrl

====
